---- MODULE Spec2Model ----
(***************************************************************************)
(* Model of LABDEMO.py, the 4-quadrant RF-test dashboard.                  *)
(*                                                                         *)
(* State: the module-level globals (df, angles, signals, pattern_power,    *)
(* ser, simulation, idx, x_data, y_data), the three dcc.Store components   *)
(* (scan-state, frequency-state, spectrum-axis) and the callback outputs   *)
(* the properties talk about.  One action per Dash callback; a callback    *)
(* runs to completion (single dispatch queue).                             *)
(*                                                                         *)
(* A dcc.Store is written only by the callback that lists it as an Output. *)
(* A callback that receives a store as State gets a deserialised copy:     *)
(* assigning to that copy changes the copy, not the store.                 *)
(*                                                                         *)
(* Python lists are 0-based, TLA+ sequences 1-based: angles[idx] of the    *)
(* source is angles[idx + 1] here.                                         *)
(***************************************************************************)
EXTENDS Integers, Sequences, FiniteSets, TLC

VARIABLES
    df,              \* the loaded table, a sequence of [Angle, Signal] rows
    angles,          \* df["Angle"].tolist()
    signals,         \* df["Signal"].tolist()
    pattern_power,   \* last signal value
    idx,             \* sweep cursor (0-based)
    x_data,          \* accumulated trace, angles
    y_data,          \* accumulated trace, signals
    scan_state,      \* dcc.Store "scan-state": data["active"]
    state_active,    \* state["active"] of pattern()'s own copy when it last returned
    triggered,       \* callback_context.triggered[0]["prop_id"] of the last callback
    upload_data,     \* dcc.Upload "upload-data": its contents property
    upload_status,   \* Output "upload-status"
    ser,             \* serial.Serial instance or None
    simulation,      \* simulation flag
    open_handles,    \* the ports this process holds open
    serial_status,   \* Output "serial-status"
    ser_written,     \* what the last callback wrote to the serial device
    frequency_state, \* dcc.Store "frequency-state": data["frequency"]
    vsg_frequency,   \* Output "vsg-frequency", the readout in MHz
    spectrum_axis,   \* dcc.Store "spectrum-axis": data["center_hz"]
    spectrum_graph   \* Output "spectrum-graph": the window centre and the curve there

vars == <<df, angles, signals, pattern_power, idx, x_data, y_data, scan_state,
          state_active, triggered, upload_data, upload_status, ser, simulation,
          open_handles, serial_status, ser_written, frequency_state, vsg_frequency,
          spectrum_axis, spectrum_graph>>

sweepVars  == <<idx, x_data, y_data, state_active>>
tableVars  == <<df, angles, signals>>
uploadVars == <<upload_data, upload_status>>
serialVars == <<ser, simulation, open_handles, serial_status>>
freqVars   == <<frequency_state, vsg_frequency, spectrum_axis, spectrum_graph>>

-----------------------------------------------------------------------------
(* Bounds and input domains *)

MaxRows == 2

\* Python's None, where a serial.Serial instance is expected
None == [port |-> "", is_open |-> FALSE]

\* rows a table file can hold: (angle in degrees, signal in dBm)
RowVals == { [Angle |-> 0,   Signal |-> -60],
             [Angle |-> 180, Signal |-> -85],
             [Angle |-> 400, Signal |-> -79] }

Tables == UNION { [1..n -> RowVals] : n \in 0..MaxRows }

\* an uploaded file: no line at all, or a first line followed by data rows
Files == { <<>> } \cup { <<h>> \o t : h \in RowVals, t \in Tables }

\* the "contents" property of dcc.Upload: nothing, a string that does not
\* split, decode or parse, or an encoded file
Contents == { [kind |-> "None", file |-> <<>>], [kind |-> "malformed", file |-> <<>>] }
                \cup { [kind |-> "csv", file |-> f] : f \in Files }

Column(t, c) == [i \in 1..Len(t) |-> t[i][c]]

\* variant: skiprows=1 left out, the first line is read as data
read_csv_noskip(file) == file

\* pd.read_csv(..., names=["Angle", "Signal"], skiprows=1): the first line is
\* dropped whatever it holds; no remaining line gives an empty frame
read_csv(file) == IF file = <<>> THEN <<>> ELSE Tail(file)

-----------------------------------------------------------------------------
(* Serial port *)

Ports == {"COM1", "COM2"}
SIMULATE == "SIMULATE (no-COM)"
NoWrite == [port |-> "", data |-> ""]

\* variant: ser.is_open is not tested
safe_write_unchecked(cmd) ==
    IF ~simulation /\ ser # None
    THEN [port |-> ser.port, data |-> cmd]
    ELSE NoWrite

\* safe_write: the bytes that reach the device, if any
safe_write(cmd) ==
    IF ~simulation /\ ser # None /\ ser.is_open
    THEN [port |-> ser.port, data |-> cmd]
    ELSE NoWrite

-----------------------------------------------------------------------------
(* Frequencies                                                             *)
(*                                                                         *)
(* The frequency is a Python float.  Every double in [4, 8) is a multiple  *)
(* of ulp = 2^-50, and the double 0.01 is 11258999068426.24 ulp, so        *)
(* f + 0.01 and f - 0.01, rounded to nearest, are f plus or minus exactly  *)
(* Q = 11258999068426 ulp.  With 5.9 the double nearest 5.9, a frequency   *)
(* is written [n, e] for 5.9 + n * Q ulp + e ulp, |e| far below Q.  The    *)
(* doubles 6.0 and 5.8 are 5.9 + 10 Q + 2 ulp and 5.9 - 10 Q - 3 ulp.      *)

F_5_9 == [n |-> 0, e |-> 0]
F_6_0 == [n |-> 10, e |-> 2]
F_5_8 == [n |-> -10, e |-> -3]

F_less(a, b) == a.n < b.n \/ (a.n = b.n /\ a.e < b.e)
F_min(a, b)  == IF F_less(b, a) THEN b ELSE a
F_max(a, b)  == IF F_less(a, b) THEN b ELSE a

\* frequency += 0.01, frequency -= 0.01
F_add_step(f, k) == [n |-> f.n + k, e |-> f.e]

\* f"{frequency:.3f}", as a number of MHz: e ulp is below 1e-14 GHz
format_3f(f) == 5900 + 10 * f.n

-----------------------------------------------------------------------------
Init ==
    /\ df \in Tables \ { <<>> }
    /\ angles = Column(df, "Angle")
    /\ signals = Column(df, "Signal")
    /\ pattern_power = signals[1]
    /\ idx = 0
    /\ x_data = <<>>
    /\ y_data = <<>>
    /\ scan_state = FALSE
    /\ state_active = FALSE
    /\ triggered = "."
    /\ upload_data = [kind |-> "None", file |-> <<>>]
    /\ upload_status = ""
    /\ ser = None
    /\ simulation = TRUE
    /\ open_handles = {}
    /\ serial_status = <<"Simulation">>
    /\ ser_written = NoWrite
    /\ frequency_state = F_5_9
    /\ vsg_frequency = 5900
    /\ spectrum_axis = F_5_9
    /\ spectrum_graph = [center_hz |-> F_5_9, y_center |-> 0, drawn |-> FALSE]

-----------------------------------------------------------------------------
(* Sweep *)

TICK  == "interval-pattern.n_intervals"
RESET == "reset-btn.n_clicks"
START == "start-btn.n_clicks"
STOP  == "stop-btn.n_clicks"
UPLOAD == "upload-data.contents"

\* toggle_scan: the only writer of the scan-state store
toggle_scan(trig) ==
    /\ scan_state' = (trig = START)
    /\ triggered' = trig
    /\ ser_written' = NoWrite
    /\ UNCHANGED <<tableVars, pattern_power, sweepVars, uploadVars,
                   serialVars, freqVars>>

\* variant: idx = 0 outside the reset test, run on every call
reset_idx_always(trig) == 0

\* pattern, the reset branch: idx = 0
reset_idx(trig) == IF trig = RESET THEN 0 ELSE idx

\* variant: the reset branch does not clear the lists
reset_data_kept(trig, data) == data

\* pattern, the reset branch: x_data.clear(), y_data.clear()
reset_data(trig, data) == IF trig = RESET THEN <<>> ELSE data

\* variant: the reset branch leaves state["active"] as received
reset_active_kept(trig) == scan_state

\* pattern, the reset branch: state["active"] = False, on pattern's copy of
\* the store's data
reset_active(trig) == IF trig = RESET THEN FALSE ELSE scan_state

\* variant: state.get("active") is not tested
emit_guard_always(active, i) == i < Len(angles) /\ angles[i + 1] <= 360

\* variant: the bound test is off by one, the last row is never emitted
emit_guard_short(active, i) == active /\ i + 1 < Len(angles) /\ angles[i + 1] <= 360

\* pattern, the emit guard
emit_guard(active, i) == active /\ i < Len(angles) /\ angles[i + 1] <= 360

\* pattern, the elif guard
halt_guard(i) ==
    \/ i >= Len(angles)
    \/ (IF i < Len(angles) THEN angles[i + 1] > 360 ELSE FALSE)

\* pattern: timer tick or reset button
pattern(trig) ==
    LET i      == reset_idx(trig)
        active == reset_active(trig)
    IN  /\ triggered' = trig
        /\ IF emit_guard(active, i)
           THEN /\ ser_written' = safe_write("STEP")
                /\ x_data' = Append(reset_data(trig, x_data), angles[i + 1])
                /\ y_data' = Append(reset_data(trig, y_data), signals[i + 1])
                /\ pattern_power' = signals[i + 1]
                /\ idx' = i + 1
                /\ state_active' = active
           ELSE /\ ser_written' = NoWrite
                /\ x_data' = reset_data(trig, x_data)
                /\ y_data' = reset_data(trig, y_data)
                /\ pattern_power' = pattern_power
                /\ idx' = i
                /\ state_active' = IF halt_guard(i) THEN FALSE ELSE active
        /\ UNCHANGED <<tableVars, scan_state, uploadVars, serialVars, freqVars>>

\* update_csv: contents is None, something that raises before the globals
\* are assigned, or a file.  With a file, df, angles and signals are assigned
\* first and pattern_power = signals[0] comes after: on an empty frame it
\* raises IndexError, which the except clause turns into the error status.
update_csv(contents) ==
    /\ triggered' = UPLOAD
    /\ upload_data' = contents
    /\ ser_written' = NoWrite
    /\ IF contents.kind = "None"
       THEN /\ upload_status' = "No file uploaded."
            /\ UNCHANGED <<tableVars, pattern_power>>
       ELSE IF contents.kind = "malformed"
       THEN /\ upload_status' = "Error processing file"
            /\ UNCHANGED <<tableVars, pattern_power>>
       ELSE LET uploaded_df == read_csv(contents.file)
            IN  /\ df' = uploaded_df
                /\ angles' = Column(uploaded_df, "Angle")
                /\ signals' = Column(uploaded_df, "Signal")
                /\ IF Len(uploaded_df) > 0
                   THEN /\ pattern_power' = uploaded_df[1].Signal
                        /\ upload_status' = "uploaded successfully"
                   ELSE /\ pattern_power' = pattern_power
                        /\ upload_status' = "Error processing file"
    /\ UNCHANGED <<sweepVars, scan_state, serialVars, freqVars>>

-----------------------------------------------------------------------------
(* Serial link *)

CONNECT == "connect-btn.n_clicks"

\* ser.close() if ser and ser.is_open
close_old(handles) == IF ser # None /\ ser.is_open THEN handles \ {ser.port} ELSE handles
closed_ser == IF ser # None THEN [ser EXCEPT !.is_open = FALSE] ELSE ser

\* open_port: the flag is cleared and the old port closed before
\* serial.Serial(port, ...) is tried; opens = FALSE is SerialException
\* (the old, closed instance stays in ser)
open_port(port, opens) ==
    IF port = SIMULATE
    THEN /\ open_handles' = close_old(open_handles)
         /\ ser' = None
         /\ simulation' = TRUE
    ELSE /\ simulation' = FALSE
         /\ IF opens
            THEN /\ ser' = [port |-> port, is_open |-> TRUE]
                 /\ open_handles' = close_old(open_handles) \cup {port}
            ELSE /\ ser' = closed_ser
                 /\ open_handles' = close_old(open_handles)

connect_serial(port, opens) ==
    /\ open_port(port, opens)
    /\ serial_status' = IF port # SIMULATE /\ ~opens THEN <<"Error", port>>
                        ELSE IF simulation' THEN <<"Simulation">>
                        ELSE <<"Connected", port>>
    /\ triggered' = CONNECT
    /\ ser_written' = NoWrite
    /\ UNCHANGED <<tableVars, pattern_power, sweepVars, scan_state, uploadVars, freqVars>>

MotorButtons == {"cw-btn.n_clicks", "ccw-btn.n_clicks", "mot-stop-btn.n_clicks"}

motor_cmd(trig) ==
    CASE trig = "cw-btn.n_clicks"       -> ":CW"
      [] trig = "ccw-btn.n_clicks"      -> ":CCW"
      [] trig = "mot-stop-btn.n_clicks" -> ":STOP"

motor_control(trig) ==
    /\ ser_written' = safe_write(motor_cmd(trig))
    /\ triggered' = trig
    /\ UNCHANGED <<tableVars, pattern_power, sweepVars, scan_state, uploadVars,
                   serialVars, freqVars>>

-----------------------------------------------------------------------------
(* VSG frequency and spectrum *)

FREQ_UP   == "freq-up-btn.n_clicks"
FREQ_DOWN == "freq-down-btn.n_clicks"
AUTO      == "auto-btn.n_clicks"
SWEEP     == "interval-sweep.n_intervals"

\* variant: passing the upper limit wraps to the lower one
clamp_wrap(f) == IF F_less(F_6_0, f) THEN F_5_8 ELSE F_max(F_5_8, f)

\* max(5.8, min(6.0, frequency))
clamp(f) == F_max(F_5_8, F_min(F_6_0, f))

update_frequency(trig) ==
    LET frequency == IF trig = FREQ_UP THEN F_add_step(frequency_state, 1)
                     ELSE IF trig = FREQ_DOWN THEN F_add_step(frequency_state, -1)
                     ELSE frequency_state
    IN  /\ frequency_state' = clamp(frequency)
        /\ vsg_frequency' = format_3f(clamp(frequency))
        /\ triggered' = trig
        /\ ser_written' = NoWrite
        /\ UNCHANGED <<tableVars, pattern_power, sweepVars, scan_state, uploadVars,
                       serialVars, spectrum_axis, spectrum_graph>>

\* Powers are in thousandths of a dBm.
\* noise = np.clip(-90 + N(0, 5.5), -inf, -80): any value up to the cap
NOISE_CAP == -80000
NoiseVals == {-105000, -90000, NOISE_CAP}

\* 1000 * exp(-(x - CF_HZ + 150e3)^2 / (2 * SIG_W^2)) at the sample x = center_hz,
\* the middle one of the PTS samples.  center_hz - CF_HZ is k steps of 10 MHz
\* (the e ulp are below 1e-5 Hz): exp(-0.045) = 0.955997 for k = 0, and below
\* exp(-194) for any other k.
gauss(k) == IF k = 0 THEN 956 ELSE 0

\* sig = -100 + amp * exp(...), amp = pattern_power + 100
sig_center(center_hz, CF_HZ) ==
    -100000 + (pattern_power + 100) * gauss(center_hz.n - CF_HZ.n)

\* variant: np.minimum in place of np.maximum
minimum(a, b) == IF a <= b THEN a ELSE b

\* np.maximum(noise, sig), at one sample
maximum(a, b) == IF a >= b THEN a ELSE b

\* update_spectrum: the figure; the window is centred on the axis store
\* unless Auto triggered the call
update_spectrum(trig, noise) ==
    LET CF_HZ     == frequency_state
        center_hz == IF trig = AUTO THEN CF_HZ ELSE spectrum_axis
    IN  [center_hz |-> center_hz,
         y_center |-> maximum(noise, sig_center(center_hz, CF_HZ)),
         drawn |-> TRUE]

\* recenter_axis
recenter_axis == frequency_state

\* a tick of interval-sweep
spectrum_tick(noise) ==
    /\ spectrum_graph' = update_spectrum(SWEEP, noise)
    /\ triggered' = SWEEP
    /\ ser_written' = NoWrite
    /\ UNCHANGED <<tableVars, pattern_power, sweepVars, scan_state, uploadVars,
                   serialVars, frequency_state, vsg_frequency, spectrum_axis>>

\* a click on Auto triggers both update_spectrum and recenter_axis; neither
\* reads what the other writes
auto_click(noise) ==
    /\ spectrum_graph' = update_spectrum(AUTO, noise)
    /\ spectrum_axis' = recenter_axis
    /\ triggered' = AUTO
    /\ ser_written' = NoWrite
    /\ UNCHANGED <<tableVars, pattern_power, sweepVars, scan_state, uploadVars,
                   serialVars, frequency_state, vsg_frequency>>

-----------------------------------------------------------------------------
ToggleScan      == \E trig \in {START, STOP} : toggle_scan(trig)
Pattern         == \E trig \in {TICK, RESET} : pattern(trig)
UpdateCsv       == \E contents \in Contents : update_csv(contents)
ConnectSerial   == \E port \in Ports \cup {SIMULATE}, opens \in BOOLEAN : connect_serial(port, opens)
MotorControl    == \E trig \in MotorButtons : motor_control(trig)
UpdateFrequency == \E trig \in {FREQ_UP, FREQ_DOWN} : update_frequency(trig)
SpectrumTick    == \E noise \in NoiseVals : spectrum_tick(noise)
AutoClick       == \E noise \in NoiseVals : auto_click(noise)

\* the sweep and the uploads, in simulation
Next == ToggleScan \/ Pattern \/ UpdateCsv
Spec == Init /\ [][Next]_vars

\* the same, with the timer of interval-pattern firing for ever
SpecTimer == Init /\ [][Next]_vars /\ WF_vars(pattern(TICK))

\* the serial link and the sweep over the table loaded at start
NextSerial == ConnectSerial \/ MotorControl \/ ToggleScan \/ Pattern
SpecSerial == Init /\ [][NextSerial]_vars

\* the VSG frequency and the spectrum, for a one-row table loaded at start
InitSpectrum == Init /\ Len(df) = 1
NextSpectrum == UpdateFrequency \/ SpectrumTick \/ AutoClick
SpecSpectrum == InitSpectrum /\ [][NextSpectrum]_vars

-----------------------------------------------------------------------------
(* Properties *)

\* C1: when a reset (pattern() triggered by reset-btn) returns, the cursor is
\* 0 and the trace is empty, whatever the state was before.
C1_ResetClears ==
    triggered = RESET => idx = 0 /\ x_data = <<>> /\ y_data = <<>>

\* a reset has returned while the store says running and the table is empty
C1_Witness ==
    /\ triggered = RESET
    /\ scan_state = TRUE
    /\ Len(angles) = 0
    /\ idx = 0 /\ x_data = <<>> /\ y_data = <<>>

\* C2: a reset sets the running flag (the scan-state store's "active") to
\* false: a tick that directly follows a reset reads it false, emits no point
\* and leaves the cursor at 0.
C2_ResetStopsSweep ==
    [][(triggered = RESET /\ triggered' = TICK)
         => (scan_state = FALSE /\ idx' = 0 /\ x_data' = <<>> /\ y_data' = <<>>)]_vars

\* C3: a tick that finds the table exhausted (idx = len(angles), or
\* angles[idx] > 360) leaves the running flag (the scan-state store's
\* "active") false.
C3_ExhaustionStopsRunning ==
    [][(triggered' = TICK /\ halt_guard(idx)) => scan_state' = FALSE]_vars

C5_StepOrUnchanged ==
    [][/\ triggered' = FREQ_UP =>
            \/ frequency_state' = F_add_step(frequency_state, 1)
            \/ (frequency_state = F_6_0 /\ frequency_state' = frequency_state)
       /\ triggered' = FREQ_DOWN =>
            \/ frequency_state' = F_add_step(frequency_state, -1)
            \/ (frequency_state = F_5_8 /\ frequency_state' = frequency_state)]_vars

InRange(f) == ~F_less(f, F_5_8) /\ ~F_less(F_6_0, f)

\* C5 as amended: the frequency stays in [5.8, 6.0]; a command changes it by
\* one 0.01 step of double arithmetic and the readout by 0.010, except that a
\* step from a value whose readout is 6.000 (up) or 5.800 (down) sets it to
\* exactly 6.0 or 5.8: unchanged when it is already there, a few ulp otherwise.
C5_ClampedSteps ==
    [][/\ InRange(frequency_state')
       /\ vsg_frequency' \in 5800..6000
       /\ triggered' = FREQ_UP =>
            /\ frequency_state' = IF vsg_frequency = 6000 THEN F_6_0
                                  ELSE F_add_step(frequency_state, 1)
            /\ vsg_frequency' = IF vsg_frequency = 6000 THEN 6000 ELSE vsg_frequency + 10
       /\ triggered' = FREQ_DOWN =>
            /\ frequency_state' = IF vsg_frequency = 5800 THEN F_5_8
                                  ELSE F_add_step(frequency_state, -1)
            /\ vsg_frequency' = IF vsg_frequency = 5800 THEN 5800 ELSE vsg_frequency - 10
      ]_vars

\* an up has saturated at 6.0
C5_Witness ==
    triggered = FREQ_UP /\ frequency_state = F_6_0 /\ vsg_frequency = 6000

\* C6: an upload that ends in the error status leaves the table,
\* pattern_power, the cursor and the trace as they were.
C6_FailedUploadKeepsState ==
    [][(triggered' = UPLOAD /\ upload_status' = "Error processing file")
         => UNCHANGED <<df, angles, signals, pattern_power, idx, x_data, y_data>>]_vars

\* C7: a successful upload makes the file's data rows (those after its first
\* line) the table and leaves the cursor and the trace alone; the cursor
\* returns to 0 only by a reset; a tick that emits from cursor 0 emits the
\* first row of the table loaded then.
C7_UploadReplacesTable ==
    [][/\ (triggered' = UPLOAD /\ upload_status' = "uploaded successfully")
            => /\ df' = Tail(upload_data'.file)
               /\ angles' = [i \in 1..Len(df') |-> df'[i].Angle]
               /\ signals' = [i \in 1..Len(df') |-> df'[i].Signal]
               /\ UNCHANGED <<idx, x_data, y_data>>
       /\ (idx # 0 /\ idx' = 0) => triggered' = RESET
       /\ (triggered' = TICK /\ idx = 0 /\ idx' = 1)
            => (x_data' = <<df[1].Angle>> /\ y_data' = <<df[1].Signal>>)]_vars

\* a one-row table has been uploaded with the cursor at 2 and two points in
\* the trace
C7_Witness ==
    /\ triggered = UPLOAD
    /\ upload_status = "uploaded successfully"
    /\ Len(upload_data.file) = 2
    /\ Len(angles) = 1
    /\ idx = 2
    /\ Len(x_data) = 2 /\ Len(y_data) = 2

\* C8: after a connect that failed to open the port, the simulation flag is
\* true and nothing is written to a serial port.
C8_FailedOpenFallsBack ==
    serial_status[1] = "Error" => (simulation = TRUE /\ ser_written = NoWrite)

\* C9: bytes are written only with simulation off and to the open port held in
\* ser; after SIMULATE is selected the old port is closed and ser is None; and
\* nothing is written unless the last connect opened a physical port.
C9_WritesOnlyToOpenPort ==
    /\ ser_written # NoWrite =>
          /\ simulation = FALSE
          /\ ser # None /\ ser.is_open
          /\ ser_written.port = ser.port
          /\ ser.port \in open_handles
    /\ serial_status = <<"Simulation">> =>
          (simulation = TRUE /\ ser = None /\ open_handles = {})
    /\ serial_status[1] # "Connected" => ser_written = NoWrite

\* a sweep tick has written STEP to COM2
C9_Witness ==
    /\ triggered = TICK
    /\ ser_written = [port |-> "COM2", data |-> "STEP"]
    /\ serial_status = <<"Connected", "COM2">>

\* C10 as stated: whatever the window centre, the VSG frequency and
\* pattern_power, the curve at the window centre is above the noise cap.
C10_CenterAboveNoise ==
    (triggered \in {SWEEP, AUTO}) => spectrum_graph.y_center > NOISE_CAP

\* C10 as amended: when the window is centred on the VSG frequency and
\* pattern_power is at least -79 dBm, the curve at the window centre is the
\* signal bump, 0.956 of its amplitude above -100 dBm, and above the noise cap.
C10_CenteredStrongSignal ==
    (/\ triggered \in {SWEEP, AUTO}
     /\ spectrum_graph.center_hz.n = frequency_state.n
     /\ pattern_power >= -79)
      => /\ spectrum_graph.y_center > NOISE_CAP
         /\ spectrum_graph.y_center = -100000 + 956 * (pattern_power + 100)

\* Auto has centred the window on 6.0 GHz with the weakest signal that clears
\* the noise cap
C10_Witness ==
    /\ triggered = AUTO
    /\ frequency_state = F_6_0
    /\ spectrum_graph.center_hz = F_6_0
    /\ pattern_power = -79
    /\ spectrum_graph.y_center = -79924

\* C11: a tick reads the table only in range (the emit branch is taken only
\* with idx < len(angles), and signals is as long as angles), and a tick whose
\* emit guard fails leaves idx, the trace and pattern_power unchanged.
C11_TickNeverOutOfRange ==
    [][/\ Len(signals') = Len(angles')
       /\ triggered' = TICK =>
            IF scan_state /\ idx < Len(angles) /\ angles[idx + 1] <= 360
            THEN (idx + 1) \in DOMAIN angles /\ (idx + 1) \in DOMAIN signals
            ELSE UNCHANGED <<idx, x_data, y_data, pattern_power>>]_vars

\* a tick has run while the store says running, with the cursor at 2 and the
\* table emptied by an upload
C11_Witness ==
    /\ triggered = TICK
    /\ scan_state = TRUE
    /\ Len(angles) = 0
    /\ upload_status = "Error processing file"
    /\ idx = 2
    /\ Len(x_data) = 2

TraceMatchesCursor == Len(x_data) = idx /\ Len(y_data) = idx

\* C12: the trace holds as many points as the cursor says, in both lists,
\* and the cursor decreases only to 0 and only on a reset.
C12_TraceLengthIsCursor ==
    [][/\ TraceMatchesCursor
       /\ TraceMatchesCursor'
       /\ idx' < idx => (triggered' = RESET /\ idx' = 0)]_vars

\* an upload has changed the table between the two ticks that emitted
C12_Witness ==
    /\ triggered = TICK
    /\ idx = 2
    /\ x_data = <<180, 0>>
    /\ y_data = <<-85, -60>>
    /\ upload_status = "uploaded successfully"

Halted == idx >= Len(angles) \/ angles[idx + 1] > 360

\* C13: with the timer firing for ever, once start is pressed and only start
\* presses and ticks follow, the cursor comes to rest at idx >= len(angles) or
\* angles[idx] > 360; a tick advances the cursor by one and never past
\* len(angles), so at most len(angles) ticks emit; and a tick at a halted
\* cursor changes neither idx, the trace nor pattern_power.
C13_SweepHalts ==
    /\ []((triggered = START /\ [](triggered \in {START, TICK})) => <>[]Halted)
    /\ [][triggered' = TICK =>
            /\ idx' # idx => (idx' = idx + 1 /\ idx' <= Len(angles))
            /\ Halted => UNCHANGED <<idx, x_data, y_data, pattern_power>>]_vars

\* the running sweep has emitted the whole table and a further tick has run
C13_Witness ==
    /\ triggered = TICK
    /\ scan_state = TRUE
    /\ state_active = FALSE
    /\ idx = Len(angles)
    /\ x_data = <<180, 180>>

====
